---- MODULE Spec2Model ----
(***************************************************************************)
(* Task server of rpa-worker-selenium (task_server.py) with the parts of   *)
(* script_downloader.py it calls: the POST /task handler, the background   *)
(* download-and-execute thread, the executing flag and its lock; and the   *)
(* worker wrapper (worker_wrapper.py) that runs one script as a child.     *)
(*                                                                         *)
(* Python strings are sequences of one-character strings, so that prefix,  *)
(* suffix, slicing and splitting are computed as the code computes them.   *)
(***************************************************************************)
EXTENDS Integers, Sequences, FiniteSets, TLC

\* ------------------------------------------------------------------- state

VARIABLES
    TASK_AUTH_TOKEN,  \* the configured token, fixed at start
    task_executing,   \* the global flag
    task_lock,        \* holder of the lock: <<"free", 0>>, <<"handler", h>>, <<"thread", h>>
    pc,               \* position of the handler of request h in receive_task
    req,              \* what the handler of request h has read of it: the
                      \* Authorization header (read only when a token is
                      \* configured) and the body (never read for a 401 or 409)
    resp,             \* the response sent to request h
    thread,           \* the execution thread started for request h
    environ,          \* os.environ entries the server writes
    files,            \* the files the server has written: records [path, content]
    alive,            \* the server process runs
    exit_status,      \* the status the process ended with, -1 while it runs
    health,           \* the response of GET /health when the last step answered one
    call,             \* a direct call of one of the pure functions: its arguments
    result,           \* what that call returned
    wrapper           \* the worker wrapper (worker_wrapper.py): its main flow,
                      \* its signal handlers and the script it runs

\* ------------------------------------------------------------------ bounds

\* Most path segments of a URL the filename derivation is called with.
MaxSegments == 2

\* Number of POST /task requests the server receives in one behaviour.
MaxRequests == 2

\* ----------------------------------------------------------------- strings

\* Python's None as the error of a successful validation.
NoneVal == <<"<None>">>

StartsWith(s, p) == Len(s) >= Len(p) /\ SubSeq(s, 1, Len(p)) = p

EndsWith(s, p) == Len(s) >= Len(p) /\ SubSeq(s, Len(s) - Len(p) + 1, Len(s)) = p

\* s[n:] of Python, n >= 0.
SliceFrom(s, n) == SubSeq(s, n + 1, Len(s))

\* str.lower() on the letters the model's alphabet holds in upper case.
LowerChar(c) == CASE c = "P" -> "p" [] c = "Y" -> "y" [] c = "A" -> "a" [] OTHER -> c

Lower(s) == [i \in 1..Len(s) |-> LowerChar(s[i])]

\* Index of the first element of s that is in the set cs, Len(s)+1 if none.
RECURSIVE FirstIn(_, _, _)
FirstIn(s, cs, i) ==
    IF i > Len(s) THEN Len(s) + 1
    ELSE IF s[i] \in cs THEN i ELSE FirstIn(s, cs, i + 1)

\* str.split(sep) for a one-character separator: the list of the pieces,
\* empty pieces included.
RECURSIVE Split(_, _)
Split(s, sep) ==
    LET k == FirstIn(s, {sep}, 1)
    IN  IF k > Len(s) THEN <<s>>
        ELSE <<SubSeq(s, 1, k - 1)>> \o Split(SubSeq(s, k + 1, Len(s)), sep)

\* The characters of s joined into one string (used to name a digest).
RECURSIVE Joined(_)
Joined(s) == IF s = <<>> THEN "" ELSE s[1] \o Joined(Tail(s))

Https == <<"h", "t", "t", "p", "s", ":", "/", "/">>
Http == <<"h", "t", "t", "p", ":", "/", "/">>
DotPy == <<".", "p", "y">>
BearerPrefix == <<"B", "e", "a", "r", "e", "r", " ">>

\* ------------------------------------------------- script_downloader.py

\* re.sub(r'[\\/*?:"<>|]', "_", name) followed by str.strip().
SanitizeChars == {"\\", "/", "*", "?", ":", "\"", "<", ">", "|"}

RECURSIVE StripLeft(_)
StripLeft(s) == IF s # <<>> /\ Head(s) = " " THEN StripLeft(Tail(s)) ELSE s

RECURSIVE StripRight(_)
StripRight(s) ==
    IF s # <<>> /\ s[Len(s)] = " " THEN StripRight(SubSeq(s, 1, Len(s) - 1)) ELSE s

_sanitize(name) ==
    StripRight(StripLeft([i \in 1..Len(name) |->
                             IF name[i] \in SanitizeChars THEN "_" ELSE name[i]]))

\* urllib.parse.unquote: the model's alphabet holds one escape, %2F, as one
\* element; it decodes to "/".
Unquote(s) == [i \in 1..Len(s) |-> IF s[i] = "%2F" THEN "/" ELSE s[i]]

\* urlparse(url).path for scheme://netloc/path?query#fragment: what follows
\* the network location up to the first "?" or "#". (The ";params" part
\* urlparse also cuts off is not modelled: no URL of the model holds a ";".)
UrlPath(url) ==
    LET rest == IF StartsWith(url, Https) THEN SliceFrom(url, Len(Https))
                ELSE IF StartsWith(url, Http) THEN SliceFrom(url, Len(Http))
                ELSE url
        hasNetloc == StartsWith(url, Https) \/ StartsWith(url, Http)
        p0 == IF hasNetloc THEN FirstIn(rest, {"/", "?", "#"}, 1) ELSE 1
        fromPath == SubSeq(rest, p0, Len(rest))
        q == FirstIn(fromPath, {"?", "#"}, 1)
    IN  SubSeq(fromPath, 1, q - 1)

\* What requests.get(url, timeout=30) gives: a response with its status and
\* content, or a requests.RequestException (timeout, connection error).
HttpResponse(status, content) == [kind |-> "response", status |-> status, content |-> content]
HttpError(what) == [kind |-> "error", status |-> 0, content |-> <<what>>]

\* The statuses response.raise_for_status() raises HTTPError for: 4xx, 5xx.
RaisesForStatus(status) == status >= 400 /\ status < 600

\* open(path, 'wb') and f.write(content): the file holds the content.
WriteBytes(fs, path, content) ==
    {f \in fs : f.path # path} \cup {[path |-> path, content |-> content]}

\* download_file (lines 48-75): http is what the GET gives, io how open and
\* write go (IOError at open, which leaves the files alone; IOError at
\* write, after open has truncated the file; or no error). The result is
\* the returned bool and the files afterwards.
download_file(fs, url, destination_path, http, io) ==
    IF http.kind = "error" THEN [ok |-> FALSE, files |-> fs]
    ELSE IF RaisesForStatus(http.status) THEN [ok |-> FALSE, files |-> fs]
    ELSE IF io = "open_fails" THEN [ok |-> FALSE, files |-> fs]
    ELSE IF io = "write_fails"
         THEN [ok |-> FALSE, files |-> WriteBytes(fs, destination_path, <<>>)]
    ELSE [ok |-> TRUE, files |-> WriteBytes(fs, destination_path, http.content)]

\* A digest salted with the number of the call: the second call on a URL
\* gives another digest than the first.
Md5Hex16Salted(url) ==
    <<"md5_16(" \o Joined(url) \o (IF result.done THEN "#2" ELSE "#1") \o ")">>

\* hashlib.md5(url.encode()).hexdigest()[:16]: the digest is not computed;
\* it is one symbolic element naming the URL it was taken of, so equal URLs
\* give equal digests and different URLs different ones.
Md5Hex16(url) == <<"md5_16(" \o Joined(url) \o ")">>

ScriptPrefix == <<"s", "c", "r", "i", "p", "t", "_">>

\* The first segment from the left whose lower-cased text ends in ".py":
\* the scan of the segments in the opposite direction.
RECURSIVE FirstPySegment(_, _)
FirstPySegment(segments, i) ==
    LET k == Len(segments) - i + 1
    IN  IF i = 0 THEN <<>>
        ELSE IF EndsWith(Lower(segments[k]), DotPy) THEN segments[k]
             ELSE FirstPySegment(segments, i - 1)

\* The first segment, from the right, whose lower-cased text ends in ".py";
\* <<>> when there is none.
RECURSIVE LastPySegment(_, _)
LastPySegment(segments, i) ==
    IF i = 0 THEN <<>>
    ELSE IF EndsWith(Lower(segments[i]), DotPy) THEN segments[i]
         ELSE LastPySegment(segments, i - 1)

get_filename_from_url(url) ==
    LET path == Unquote(UrlPath(url))
        pieces == Split(path, "/")
        segments == SelectSeq(pieces, LAMBDA s : s # <<>>)
        seg == LastPySegment(segments, Len(segments))
    IN  IF seg # <<>> THEN _sanitize(seg)
        ELSE ScriptPrefix \o Md5Hex16(url) \o DotPy

\* ---------------------------------------------------------- request values

\* A JSON value of a request body: t is its type, v its text (a sequence of
\* strings whatever the type, so that any two values can be compared).
JStr(s) == [t |-> "str", v |-> s]
JInt(s) == [t |-> "int", v |-> s]
JObj(s) == [t |-> "obj", v |-> s]
\* Python's None as a value (a key that is missing, payload.get of it).
JNone == [t |-> "none", v |-> <<>>]

\* The body of a POST /task: json is "bad" (get_json raises), "null" (get_json
\* returns None) or "dict"; keys are the keys of the dict.
Body(json, keys, url, name, payload) ==
    [json |-> json, keys |-> keys, script_url |-> url, script_name |-> name,
     payload |-> payload]

\* request.headers: the Authorization header, when there is one.
Headers(present, value) == [present |-> present, value |-> value]

\* request.headers.get("Authorization", "")
AuthorizationOf(headers) == IF headers.present THEN headers.value ELSE <<>>

\* ------------------------------------------------------- task_server.py

Result(ok, error) == [raised |-> FALSE, ok |-> ok, error |-> error]

\* An exception leaving the function (AttributeError on a non-string URL).
Raised(what) == [raised |-> TRUE, ok |-> FALSE, error |-> <<what>>]

\* validate_auth with the comparison of the token left out: any header that
\* starts with "Bearer " passes.
validate_auth_prefix_only(token, headers) ==
    LET auth_header == AuthorizationOf(headers)
    IN  IF token = <<>> THEN Result(TRUE, NoneVal)
        ELSE IF ~StartsWith(auth_header, BearerPrefix)
             THEN Result(FALSE, <<"Missing or invalid Authorization header">>)
        ELSE Result(TRUE, NoneVal)

\* validate_auth comparing only as much of the configured token as the
\* client supplied: a prefix of the token passes.
validate_auth_token_prefix(token, headers) ==
    LET auth_header == AuthorizationOf(headers)
    IN  IF token = <<>> THEN Result(TRUE, NoneVal)
        ELSE IF ~StartsWith(auth_header, BearerPrefix)
             THEN Result(FALSE, <<"Missing or invalid Authorization header">>)
        ELSE IF ~StartsWith(token, SliceFrom(auth_header, 7))
             THEN Result(FALSE, <<"Invalid authentication token">>)
        ELSE Result(TRUE, NoneVal)

validate_auth(token, headers) ==
    LET auth_header == AuthorizationOf(headers)
    IN  IF token = <<>> THEN Result(TRUE, NoneVal)
        ELSE IF ~StartsWith(auth_header, BearerPrefix)
             THEN Result(FALSE, <<"Missing or invalid Authorization header">>)
        ELSE IF SliceFrom(auth_header, 7) # token
             THEN Result(FALSE, <<"Invalid authentication token">>)
        ELSE Result(TRUE, NoneVal)

\* `not payload`: None and the empty dict are falsy.
Falsy(payload) == payload.json = "null" \/ (payload.json = "dict" /\ payload.keys = {})

MismatchError(script_name, url_filename) ==
    <<"script_name '">> \o script_name.v \o <<"' does not match URL filename '">>
        \o url_filename \o <<"'">>

\* validate_payload without the comparison of script_name with the filename
\* of the URL.
validate_payload_no_name_check(payload) ==
    IF Falsy(payload) THEN Result(FALSE, <<"Empty payload">>)
    ELSE IF "script_url" \notin payload.keys
         THEN Result(FALSE, <<"Missing required field: script_url">>)
    ELSE IF "script_name" \notin payload.keys
         THEN Result(FALSE, <<"Missing required field: script_name">>)
    ELSE IF payload.script_url.t # "str"
         THEN Raised("AttributeError: no attribute 'startswith'")
    ELSE IF ~StartsWith(payload.script_url.v, Https)
         THEN Result(FALSE, <<"script_url must use HTTPS protocol">>)
    ELSE IF "payload" \in payload.keys /\ payload.payload.t # "obj"
         THEN Result(FALSE, <<"payload field must be a JSON object">>)
    ELSE Result(TRUE, NoneVal)

validate_payload(payload) ==
    IF Falsy(payload) THEN Result(FALSE, <<"Empty payload">>)
    ELSE IF "script_url" \notin payload.keys
         THEN Result(FALSE, <<"Missing required field: script_url">>)
    ELSE IF "script_name" \notin payload.keys
         THEN Result(FALSE, <<"Missing required field: script_name">>)
    ELSE IF payload.script_url.t # "str"
         THEN Raised("AttributeError: no attribute 'startswith'")
    ELSE IF ~StartsWith(payload.script_url.v, Https)
         THEN Result(FALSE, <<"script_url must use HTTPS protocol">>)
    ELSE LET url_filename == get_filename_from_url(payload.script_url.v)
         IN  IF payload.script_name # JStr(url_filename)
             THEN Result(FALSE, MismatchError(payload.script_name, url_filename))
             ELSE IF "payload" \in payload.keys /\ payload.payload.t # "obj"
                  THEN Result(FALSE, <<"payload field must be a JSON object">>)
             ELSE Result(TRUE, NoneVal)

\* payload.get("payload")
TaskPayloadOf(payload) ==
    IF "payload" \in payload.keys THEN payload.payload ELSE JNone

\* ----------------------------------------------------------------- inputs

Secret == <<"s", "3">>

\* Values of TASK_AUTH_TOKEN: "" (authentication disabled) or a secret.
Tokens == {<<>>, Secret}

\* Authorization headers of the requests: none, the right token, a wrong one.
RequestHeaders ==
    {Headers(FALSE, <<>>),
     Headers(TRUE, BearerPrefix \o Secret),
     Headers(TRUE, BearerPrefix \o <<"x">>)}

UrlA == Https \o <<"h", "/", "a", ".", "p", "y">>
UrlB == Https \o <<"h", "/", "d", "/", "b", ".", "p", "y">>
NameA == <<"a", ".", "p", "y">>
NameB == <<"b", ".", "p", "y">>

BadJson == Body("bad", {}, JNone, JNone, JNone)
ValidA == Body("dict", {"script_url", "script_name"}, JStr(UrlA), JStr(NameA), JNone)
ValidB ==
    Body("dict", {"script_url", "script_name", "payload"}, JStr(UrlB), JStr(NameB),
         JObj(<<"k", "v">>))
ValidEmpty ==
    Body("dict", {"script_url", "script_name", "payload"}, JStr(UrlA), JStr(NameA),
         JObj(<<>>))
NoUrl == Body("dict", {"script_name"}, JNone, JStr(NameA), JNone)
IntUrl == Body("dict", {"script_url", "script_name"}, JInt(<<"5">>), JStr(NameA), JNone)

\* Bodies of the requests: unparseable, valid without and with a payload,
\* invalid (a missing field) and one whose validation raises.
RequestBodies == {BadJson, ValidA, ValidB, NoUrl, IntUrl}

\* ------------------------------------------------------------------- state

Requests == 1..MaxRequests

\* The state of the server.
server ==
    <<TASK_AUTH_TOKEN, task_executing, task_lock, pc, req, resp, thread, environ,
      files, alive, exit_status>>

\* The state of a direct call of a function (the unit tests call the
\* validators and the filename derivation without a server).
direct == <<call, result>>

vars == <<server, health, direct, wrapper>>

Free == <<"free", 0>>

NoRequest == [headers |-> Headers(FALSE, <<>>), body |-> BadJson]

\* jsonify(...), status: the fields of the JSON body that any response has.
Response(status, error, state, script_url, script_name) ==
    [status |-> status, error |-> error, state |-> state,
     script_url |-> script_url, script_name |-> script_name]

NoResponse == Response(0, <<>>, "", JNone, JNone)

\* No GET /health has been answered yet.
NoHealth == [status |-> 0, state |-> "", mode |-> "", task_executing |-> FALSE]

NoCall == [fn |-> "none"]

NotReturned == [done |-> FALSE]

Returned(value) == [done |-> TRUE, value |-> value]

NoThread ==
    [pc |-> "none", script_url |-> JNone, script_name |-> JNone,
     task_payload |-> JNone, downloaded |-> "no", child |-> "none",
     exit_code |-> -1, downloads |-> 0, spawns |-> 0, executed |-> <<>>]

\* The worker wrapper has not been launched (the task server and the direct
\* calls run without it).
NoWrapper ==
    [pc |-> "none", environ |-> [SCRIPT_URL |-> FALSE, files |-> {}],
     should_exit |-> FALSE, script_process |-> "None",
     child |-> [state |-> "none", returncode |-> 0, terminated |-> FALSE, killed |-> FALSE],
     handlers |-> <<>>, expired |-> FALSE, signals |-> 0, exit_code |-> -1, status |-> -1]

\* The server after start: no request received, no task executing.
Idle ==
    /\ task_executing = FALSE
    /\ task_lock = Free
    /\ pc = [h \in Requests |-> "new"]
    /\ req = [h \in Requests |-> NoRequest]
    /\ resp = [h \in Requests |-> NoResponse]
    /\ thread = [h \in Requests |-> NoThread]
    /\ environ = [SCRIPT_URL |-> JNone, TASK_PAYLOAD_FILE |-> JNone]
    /\ alive = TRUE
    /\ exit_status = -1
    /\ health = NoHealth

Init ==
    /\ TASK_AUTH_TOKEN \in Tokens
    /\ Idle
    /\ files = {}
    /\ call = NoCall
    /\ result = NotReturned
    /\ wrapper = NoWrapper

\* --------------------------------------------- receive_task (POST /task)

Release == task_lock' = Free

\* The request of a handler that ends without having read the body.
BodyUnread(r) == [r EXCEPT !.body = BadJson]

\* validate_auth returns at line 52, before it reads the headers, when no
\* token is configured.
HeadersRead(token, headers) == IF token = <<>> THEN Headers(FALSE, <<>>) ELSE headers

\* Receive with a 401 that tells whether the body would have validated.
ReceiveLeakingValidity(h) ==
    /\ alive
    /\ pc[h] = "new"
    /\ IF h = 1 THEN TRUE ELSE pc[h - 1] # "new"
    /\ \E headers \in RequestHeaders, body \in RequestBodies :
          LET auth == validate_auth(TASK_AUTH_TOKEN, headers)
              read == HeadersRead(TASK_AUTH_TOKEN, headers)
              valid == body.json # "bad" /\ validate_payload(body).ok
          IN  IF auth.ok
              THEN /\ req' = [req EXCEPT ![h] = [headers |-> read, body |-> body]]
                   /\ pc' = [pc EXCEPT ![h] = "lock"]
                   /\ UNCHANGED resp
              ELSE /\ req' = [req EXCEPT ![h] =
                                BodyUnread([headers |-> read, body |-> body])]
                   /\ pc' = [pc EXCEPT ![h] = "done"]
                   /\ resp' = [resp EXCEPT ![h] =
                                 Response(401,
                                          IF valid THEN auth.error \o <<" (valid task)">>
                                          ELSE auth.error,
                                          "", JNone, JNone)]
    /\ UNCHANGED <<TASK_AUTH_TOKEN, task_executing, task_lock, thread, environ,
                   files, alive, exit_status>>

\* Lines 219-225: a request arrives (requests are numbered in the order of
\* their arrival) and validate_auth decides on its headers; a failure is
\* answered 401 at once.
Receive(h) ==
    /\ alive
    /\ pc[h] = "new"
    /\ IF h = 1 THEN TRUE ELSE pc[h - 1] # "new"
    /\ \E headers \in RequestHeaders, body \in RequestBodies :
          LET auth == validate_auth(TASK_AUTH_TOKEN, headers)
              read == HeadersRead(TASK_AUTH_TOKEN, headers)
          IN  IF auth.ok
              THEN /\ req' = [req EXCEPT ![h] = [headers |-> read, body |-> body]]
                   /\ pc' = [pc EXCEPT ![h] = "lock"]
                   /\ UNCHANGED resp
              ELSE /\ req' = [req EXCEPT ![h] =
                                BodyUnread([headers |-> read, body |-> body])]
                   /\ pc' = [pc EXCEPT ![h] = "done"]
                   /\ resp' = [resp EXCEPT ![h] =
                                 Response(401, auth.error, "", JNone, JNone)]
    /\ UNCHANGED <<TASK_AUTH_TOKEN, task_executing, task_lock, thread, environ,
                   files, alive, exit_status>>

\* CheckExecuting without the test of the flag: every request goes on.
CheckExecutingNoTest(h) ==
    /\ alive
    /\ pc[h] = "lock"
    /\ task_lock = Free
    /\ pc' = [pc EXCEPT ![h] = "mark"]
    /\ task_lock' = <<"handler", h>>
    /\ UNCHANGED <<TASK_AUTH_TOKEN, task_executing, req, resp, thread, environ,
                   files, alive, exit_status>>

\* CheckExecuting with the payload checked before the conflict: while the
\* flag is set a body that is not valid is answered 400, a valid one 409.
CheckExecutingAfterValidation(h) ==
    /\ alive
    /\ pc[h] = "lock"
    /\ task_lock = Free
    /\ IF task_executing
       THEN /\ resp' = [resp EXCEPT ![h] =
                          IF req[h].body.json # "bad" /\ validate_payload(req[h].body).ok
                          THEN Response(409, <<"Another task is already executing">>,
                                        "conflict", JNone, JNone)
                          ELSE Response(400, validate_payload(req[h].body).error, "",
                                        JNone, JNone)]
            /\ pc' = [pc EXCEPT ![h] = "done"]
            /\ req' = [req EXCEPT ![h] = BodyUnread(@)]
            /\ UNCHANGED task_lock
       ELSE /\ pc' = [pc EXCEPT ![h] = "mark"]
            /\ task_lock' = <<"handler", h>>
            /\ UNCHANGED <<resp, req>>
    /\ UNCHANGED <<TASK_AUTH_TOKEN, task_executing, thread, environ, files, alive,
                   exit_status>>

\* CheckExecuting that answers 409 once the server has started a thread,
\* whether the thread still runs and the flag is still set or not.
CheckExecutingOnceUsed(h) ==
    /\ alive
    /\ pc[h] = "lock"
    /\ task_lock = Free
    /\ IF task_executing \/ \E g \in Requests : thread[g].pc # "none"
       THEN /\ resp' = [resp EXCEPT ![h] =
                          Response(409, <<"Another task is already executing">>,
                                   "conflict", JNone, JNone)]
            /\ pc' = [pc EXCEPT ![h] = "done"]
            /\ req' = [req EXCEPT ![h] = BodyUnread(@)]
            /\ UNCHANGED task_lock
       ELSE /\ pc' = [pc EXCEPT ![h] = "mark"]
            /\ task_lock' = <<"handler", h>>
            /\ UNCHANGED <<resp, req>>
    /\ UNCHANGED <<TASK_AUTH_TOKEN, task_executing, thread, environ, files, alive,
                   exit_status>>

\* Lines 228-234: `with task_lock:` is entered and the flag read; when it is
\* set the request is answered 409 and the lock released.
CheckExecuting(h) ==
    /\ alive
    /\ pc[h] = "lock"
    /\ task_lock = Free
    /\ IF task_executing
       THEN /\ resp' = [resp EXCEPT ![h] =
                          Response(409, <<"Another task is already executing">>,
                                   "conflict", JNone, JNone)]
            /\ pc' = [pc EXCEPT ![h] = "done"]
            /\ req' = [req EXCEPT ![h] = BodyUnread(@)]
            /\ UNCHANGED task_lock
       ELSE /\ pc' = [pc EXCEPT ![h] = "mark"]
            /\ task_lock' = <<"handler", h>>
            /\ UNCHANGED <<resp, req>>
    /\ UNCHANGED <<TASK_AUTH_TOKEN, task_executing, thread, environ, files, alive,
                   exit_status>>

\* Line 237: the flag is set and the `with` block left.
MarkExecuting(h) ==
    /\ alive
    /\ pc[h] = "mark"
    /\ task_lock = <<"handler", h>>
    /\ task_executing' = TRUE
    /\ Release
    /\ pc' = [pc EXCEPT ![h] = "parse"]
    /\ UNCHANGED <<TASK_AUTH_TOKEN, req, resp, thread, environ, files, alive,
                   exit_status>>

\* Lines 241-243: request.get_json() returns the payload or raises.
GetJson(h) ==
    /\ alive
    /\ pc[h] = "parse"
    /\ pc' = [pc EXCEPT ![h] = IF req[h].body.json = "bad" THEN "bad_json" ELSE "validate"]
    /\ UNCHANGED <<TASK_AUTH_TOKEN, task_executing, task_lock, req, resp, thread,
                   environ, files, alive, exit_status>>

\* Lines 250-251 and 281: validate_payload returns valid, returns an error or
\* raises (the outer `except Exception` catches it).
ValidatePayload(h) ==
    /\ alive
    /\ pc[h] = "validate"
    /\ LET v == validate_payload(req[h].body)
       IN  pc' = [pc EXCEPT ![h] = IF v.raised THEN "error"
                                   ELSE IF v.ok THEN "start" ELSE "invalid"]
    /\ UNCHANGED <<TASK_AUTH_TOKEN, task_executing, task_lock, req, resp, thread,
                   environ, files, alive, exit_status>>

\* Lines 244, 252, 282: `with task_lock:` of one of the three reset paths.
AcquireForReset(h) ==
    /\ alive
    /\ pc[h] \in {"bad_json", "invalid", "error"}
    /\ task_lock = Free
    /\ task_lock' = <<"handler", h>>
    /\ UNCHANGED <<TASK_AUTH_TOKEN, task_executing, pc, req, resp, thread, environ,
                   files, alive, exit_status>>

\* The response of a reset path: 400 for a body that is not JSON (line 247),
\* 400 with the validation error (line 255), 500 for an exception (line 287).
ResetResponse(where, body) ==
    CASE where = "bad_json" ->
           Response(400, <<"Invalid JSON: ", "BadRequest">>, "", JNone, JNone)
      [] where = "invalid" ->
           Response(400, validate_payload(body).error, "", JNone, JNone)
      [] where = "error" ->
           Response(500, <<"Internal server error: ">> \o validate_payload(body).error,
                    "", JNone, JNone)

\* ResetAndRespond with the reset of the flag left out.
RespondWithoutReset(h) ==
    /\ alive
    /\ pc[h] \in {"bad_json", "invalid", "error"}
    /\ task_lock = <<"handler", h>>
    /\ Release
    /\ resp' = [resp EXCEPT ![h] = ResetResponse(pc[h], req[h].body)]
    /\ pc' = [pc EXCEPT ![h] = "done"]
    /\ UNCHANGED <<TASK_AUTH_TOKEN, task_executing, req, thread, environ, files,
                   alive, exit_status>>

\* Lines 245-247, 253-255, 283-287: the flag is reset under the lock and the
\* error answered.
ResetAndRespond(h) ==
    /\ alive
    /\ pc[h] \in {"bad_json", "invalid", "error"}
    /\ task_lock = <<"handler", h>>
    /\ task_executing' = FALSE
    /\ Release
    /\ resp' = [resp EXCEPT ![h] = ResetResponse(pc[h], req[h].body)]
    /\ pc' = [pc EXCEPT ![h] = "done"]
    /\ UNCHANGED <<TASK_AUTH_TOKEN, req, thread, environ, files, alive, exit_status>>

\* StartThread with the task payload left out of the thread's arguments.
StartThreadWithoutPayload(h) ==
    /\ alive
    /\ pc[h] = "start"
    /\ thread' = [thread EXCEPT ![h] =
                    [NoThread EXCEPT !.pc = "download",
                                     !.script_url = req[h].body.script_url,
                                     !.script_name = req[h].body.script_name]]
    /\ pc' = [pc EXCEPT ![h] = "respond"]
    /\ UNCHANGED <<TASK_AUTH_TOKEN, task_executing, task_lock, req, resp, environ,
                   files, alive, exit_status>>

\* Lines 257-272: the fields are read from the payload and the execution
\* thread is created and started with them.
StartThread(h) ==
    /\ alive
    /\ pc[h] = "start"
    /\ thread' = [thread EXCEPT ![h] =
                    [NoThread EXCEPT !.pc = "download",
                                     !.script_url = req[h].body.script_url,
                                     !.script_name = req[h].body.script_name,
                                     !.task_payload = TaskPayloadOf(req[h].body)]]
    /\ pc' = [pc EXCEPT ![h] = "respond"]
    /\ UNCHANGED <<TASK_AUTH_TOKEN, task_executing, task_lock, req, resp, environ,
                   files, alive, exit_status>>

\* A response that is sent when the execution thread has ended and tells
\* how it ended (thread.join() before the return).
RespondAfterJoin(h) ==
    /\ alive
    /\ pc[h] = "respond"
    /\ thread[h].pc = "done"
    /\ resp' = [resp EXCEPT ![h] =
                  Response(IF thread[h].child = "exit0" THEN 202 ELSE 500, <<>>,
                           "accepted", req[h].body.script_url,
                           req[h].body.script_name)]
    /\ pc' = [pc EXCEPT ![h] = "done"]
    /\ UNCHANGED <<TASK_AUTH_TOKEN, task_executing, task_lock, req, thread, environ,
                   files, alive, exit_status>>

\* A handler in which the statements after execution_thread.start() raise:
\* the except branch resets the flag and answers 500.
RespondFailing(h) ==
    /\ alive
    /\ pc[h] = "respond"
    /\ task_lock = Free
    /\ task_executing' = FALSE
    /\ resp' = [resp EXCEPT ![h] =
                  Response(500, <<"Internal server error: ">>, "", JNone, JNone)]
    /\ pc' = [pc EXCEPT ![h] = "done"]
    /\ UNCHANGED <<TASK_AUTH_TOKEN, task_lock, req, thread, environ, files, alive,
                   exit_status>>

\* Lines 274-279: 202 with the URL and the name of the payload.
RespondAccepted(h) ==
    /\ alive
    /\ pc[h] = "respond"
    /\ resp' = [resp EXCEPT ![h] =
                  Response(202, <<>>, "accepted", req[h].body.script_url,
                           req[h].body.script_name)]
    /\ pc' = [pc EXCEPT ![h] = "done"]
    /\ UNCHANGED <<TASK_AUTH_TOKEN, task_executing, task_lock, req, thread, environ,
                   files, alive, exit_status>>

\* ---------------------------------------------- download_and_execute_script

TmpDir == <<"/", "t", "m", "p">>

PayloadFileName ==
    <<"t", "a", "s", "k", "_", "p", "a", "y", "l", "o", "a", "d", ".", "j", "s", "o", "n">>

\* pathlib: dir / name is name itself when name is absolute.
PathJoin(dir, name) == IF StartsWith(name, <<"/">>) THEN name ELSE dir \o <<"/">> \o name

\* A destination that is one fixed file of the temporary directory,
\* whatever the request names.
DestinationFixed(script_name) == PathJoin(TmpDir, <<"m", "a", "i", "n", ".", "p", "y">>)

\* Line 122: the destination of the download, the path the child is run
\* with at line 149.
Destination(script_name) == PathJoin(TmpDir, script_name.v)

\* open(path, 'w') and a write: the file holds the content afterwards.
WriteFile(fs, path, content) ==
    {f \in fs : f.path # path} \cup {[path |-> path, content |-> content]}

\* `if task_payload:` a non-empty dict is truthy, None and {} are not.
Truthy(task_payload) == task_payload.t = "obj" /\ task_payload.v # <<>>

\* sys.exit raises SystemExit in the calling thread; the interpreter ends
\* only when that is the main thread. The execution thread is a
\* threading.Thread, where it ends the thread alone.
SysExitEndsProcess(threadName) == threadName = "MainThread"

ExecutionThreadName == "execution_thread"

\* A download that is tried again after a failure, up to three times.
DownloadWithRetry(h) ==
    /\ alive
    /\ thread[h].pc = "download"
    /\ environ' = [environ EXCEPT !.SCRIPT_URL = thread[h].script_url]
    /\ \E ok \in BOOLEAN :
          IF ok
          THEN /\ files' = WriteFile(files, Destination(thread[h].script_name),
                                     thread[h].script_url)
               /\ thread' = [thread EXCEPT ![h].pc = "prepare",
                                           ![h].downloaded = "ok",
                                           ![h].downloads = @ + 1]
          ELSE /\ files' = files
               /\ thread' = [thread EXCEPT
                                ![h].pc = IF thread[h].downloads < 2 THEN "download"
                                          ELSE "finally",
                                ![h].downloaded = "failed",
                                ![h].downloads = @ + 1]
    /\ UNCHANGED <<TASK_AUTH_TOKEN, task_executing, task_lock, pc, req, resp, alive,
                   exit_status>>

\* Lines 118-130: SCRIPT_URL is set and download_file called once; it writes
\* the destination and returns True, or returns False and writes nothing
\* (script_downloader.py 59-75), after which the function returns.
Download(h) ==
    /\ alive
    /\ thread[h].pc = "download"
    /\ environ' = [environ EXCEPT !.SCRIPT_URL = thread[h].script_url]
    /\ \E ok \in BOOLEAN :
          IF ok
          THEN /\ files' = WriteFile(files, Destination(thread[h].script_name),
                                     thread[h].script_url)
               /\ thread' = [thread EXCEPT ![h].pc = "prepare",
                                           ![h].downloaded = "ok",
                                           ![h].downloads = @ + 1]
          ELSE /\ files' = files
               /\ thread' = [thread EXCEPT ![h].pc = "finally",
                                           ![h].downloaded = "failed",
                                           ![h].downloads = @ + 1]
    /\ UNCHANGED <<TASK_AUTH_TOKEN, task_executing, task_lock, pc, req, resp, alive,
                   exit_status>>

\* Lines 133-144: the script is made executable; a truthy payload is written
\* to /tmp/task_payload.json and TASK_PAYLOAD_FILE set to that path.
Prepare(h) ==
    /\ alive
    /\ thread[h].pc = "prepare"
    /\ IF Truthy(thread[h].task_payload)
       THEN /\ files' = WriteFile(files, PathJoin(TmpDir, PayloadFileName),
                                  thread[h].task_payload)
            /\ environ' = [environ EXCEPT !.TASK_PAYLOAD_FILE =
                             JStr(PathJoin(TmpDir, PayloadFileName))]
       ELSE UNCHANGED <<files, environ>>
    /\ thread' = [thread EXCEPT ![h].pc = "run"]
    /\ UNCHANGED <<TASK_AUTH_TOKEN, task_executing, task_lock, pc, req, resp, alive,
                   exit_status>>

\* Lines 147-153 and 174-182: subprocess.run starts the child, or raises
\* (no `python` on the PATH) and the except branch will exit with 1.
Spawn(h) ==
    /\ alive
    /\ thread[h].pc = "run"
    /\ \E started \in BOOLEAN :
          IF started
          THEN thread' = [thread EXCEPT ![h].pc = "child", ![h].child = "running",
                                        ![h].spawns = @ + 1,
                                        ![h].executed =
                                            Destination(thread[h].script_name)]
          ELSE thread' = [thread EXCEPT ![h].pc = "exit", ![h].exit_code = 1]
    /\ UNCHANGED <<TASK_AUTH_TOKEN, task_executing, task_lock, pc, req, resp,
                   environ, files, alive, exit_status>>

\* How the child of subprocess.run ends: exit code 0, another exit code, or
\* killed when WORKER_TIMEOUT expires.
ChildOutcomes == {"exit0", "exit_nonzero", "killed"}

\* An exit status that tells the outcome of the child: 0 for exit code 0 only.
ExitCodeByOutcome(outcome) == IF outcome = "exit0" THEN 0 ELSE 1

\* The status passed to sys.exit after the child has ended (line 172).
ExitCodeAfter(outcome) == 0

\* Lines 148-165: the child ends and the outcome is logged.
ChildEnds(h) ==
    /\ alive
    /\ thread[h].pc = "child"
    /\ \E outcome \in ChildOutcomes :
          thread' = [thread EXCEPT ![h].pc = "exit", ![h].child = outcome,
                                   ![h].exit_code = ExitCodeAfter(outcome)]
    /\ UNCHANGED <<TASK_AUTH_TOKEN, task_executing, task_lock, pc, req, resp,
                   environ, files, alive, exit_status>>

\* Lines 168-172 and 181-182: time.sleep(2), then sys.exit in the execution
\* thread; the finally block runs next.
SysExit(h) ==
    /\ alive
    /\ thread[h].pc = "exit"
    /\ thread' = [thread EXCEPT ![h].pc = "finally"]
    /\ IF SysExitEndsProcess(ExecutionThreadName)
       THEN alive' = FALSE /\ exit_status' = thread[h].exit_code
       ELSE UNCHANGED <<alive, exit_status>>
    /\ UNCHANGED <<TASK_AUTH_TOKEN, task_executing, task_lock, pc, req, resp,
                   environ, files>>

\* Line 185: `with task_lock:` of the finally block.
AcquireFinally(h) ==
    /\ alive
    /\ thread[h].pc = "finally"
    /\ task_lock = Free
    /\ task_lock' = <<"thread", h>>
    /\ thread' = [thread EXCEPT ![h].pc = "reset"]
    /\ UNCHANGED <<TASK_AUTH_TOKEN, task_executing, pc, req, resp, environ, files,
                   alive, exit_status>>

\* The end of the thread with the reset of the flag left out.
EndWithoutReset(h) ==
    /\ alive
    /\ thread[h].pc = "reset"
    /\ Release
    /\ thread' = [thread EXCEPT ![h].pc = "done"]
    /\ UNCHANGED <<TASK_AUTH_TOKEN, task_executing, pc, req, resp, environ, files,
                   alive, exit_status>>

\* Line 186: the flag is reset and the thread ends.
ResetFinally(h) ==
    /\ alive
    /\ thread[h].pc = "reset"
    /\ task_executing' = FALSE
    /\ Release
    /\ thread' = [thread EXCEPT ![h].pc = "done"]
    /\ UNCHANGED <<TASK_AUTH_TOKEN, pc, req, resp, environ, files, alive,
                   exit_status>>

\* ------------------------------------------------------- health (GET /health)

\* jsonify of lines 192-197 without the timestamp, and the status 200.
HealthResponse(executing) ==
    [status |-> 200, state |-> "healthy", mode |-> "standby", task_executing |-> executing]

\* health() that enters `with task_lock:` to read the flag.
HealthUnderLock ==
    /\ alive
    /\ task_lock = Free
    /\ health' = HealthResponse(task_executing)
    /\ UNCHANGED <<server, direct, wrapper>>

\* health() that answers only a request validate_auth lets through: with a
\* token configured, a probe without credentials gets 401.
HealthAuthenticated ==
    /\ alive
    /\ health' = IF TASK_AUTH_TOKEN = <<>> THEN HealthResponse(task_executing)
                 ELSE [status |-> 401, state |-> "", mode |-> "",
                       task_executing |-> FALSE]
    /\ UNCHANGED <<server, direct, wrapper>>

\* Lines 189-197: the route has no validate_auth call and no `with
\* task_lock:`; it reads nothing of the request (no header, no body), reads
\* the global flag and answers.
Health ==
    /\ alive
    /\ health' = HealthResponse(task_executing)
    /\ UNCHANGED <<server, direct, wrapper>>

\* ---------------------------------------------------------- specification

Next ==
    \E h \in Requests :
        \/ Receive(h) /\ UNCHANGED <<health, direct, wrapper>>
        \/ CheckExecuting(h) /\ UNCHANGED <<health, direct, wrapper>>
        \/ MarkExecuting(h) /\ UNCHANGED <<health, direct, wrapper>>
        \/ GetJson(h) /\ UNCHANGED <<health, direct, wrapper>>
        \/ ValidatePayload(h) /\ UNCHANGED <<health, direct, wrapper>>
        \/ AcquireForReset(h) /\ UNCHANGED <<health, direct, wrapper>>
        \/ ResetAndRespond(h) /\ UNCHANGED <<health, direct, wrapper>>
        \/ StartThread(h) /\ UNCHANGED <<health, direct, wrapper>>
        \/ RespondAccepted(h) /\ UNCHANGED <<health, direct, wrapper>>
        \/ Download(h) /\ UNCHANGED <<health, direct, wrapper>>
        \/ Prepare(h) /\ UNCHANGED <<health, direct, wrapper>>
        \/ Spawn(h) /\ UNCHANGED <<health, direct, wrapper>>
        \/ ChildEnds(h) /\ UNCHANGED <<health, direct, wrapper>>
        \/ SysExit(h) /\ UNCHANGED <<health, direct, wrapper>>
        \/ AcquireFinally(h) /\ UNCHANGED <<health, direct, wrapper>>
        \/ ResetFinally(h) /\ UNCHANGED <<health, direct, wrapper>>

Spec == Init /\ [][Next]_vars

\* The server with its liveness probe: GET /health requests arrive at any
\* time between the steps of the handlers and of the execution threads.
\* health holds the response while it is the last thing the server did; the
\* next step of a handler or of a thread finds it delivered.
Delivered == health' = NoHealth /\ UNCHANGED <<direct, wrapper>>

NextHealth ==
    \/ \E h \in Requests :
          \/ Receive(h) /\ Delivered
          \/ CheckExecuting(h) /\ Delivered
          \/ MarkExecuting(h) /\ Delivered
          \/ GetJson(h) /\ Delivered
          \/ ValidatePayload(h) /\ Delivered
          \/ AcquireForReset(h) /\ Delivered
          \/ ResetAndRespond(h) /\ Delivered
          \/ StartThread(h) /\ Delivered
          \/ RespondAccepted(h) /\ Delivered
          \/ Download(h) /\ Delivered
          \/ Prepare(h) /\ Delivered
          \/ Spawn(h) /\ Delivered
          \/ ChildEnds(h) /\ Delivered
          \/ SysExit(h) /\ Delivered
          \/ AcquireFinally(h) /\ Delivered
          \/ ResetFinally(h) /\ Delivered
    \/ Health

SpecHealth == Init /\ [][NextHealth]_vars

\* The server with its first task accepted: the handler of request 1 found
\* the flag clear, set it, validated the body and started the execution
\* thread (lines 228-272), and is about to answer. The task has no payload
\* field, a payload, or the empty object as its payload.
AcceptedBodies == {ValidA, ValidB, ValidEmpty}

AcceptedHeaders(token) ==
    IF token = <<>> THEN Headers(FALSE, <<>>) ELSE Headers(TRUE, BearerPrefix \o token)

InitAccepted ==
    /\ TASK_AUTH_TOKEN \in Tokens
    /\ task_executing = TRUE
    /\ task_lock = Free
    /\ pc = [h \in Requests |-> IF h = 1 THEN "respond" ELSE "new"]
    /\ \E body \in AcceptedBodies :
          /\ req = [h \in Requests |->
                      IF h = 1
                      THEN [headers |-> HeadersRead(TASK_AUTH_TOKEN,
                                                    AcceptedHeaders(TASK_AUTH_TOKEN)),
                            body |-> body]
                      ELSE NoRequest]
          /\ thread = [h \in Requests |->
                         IF h = 1
                         THEN [NoThread EXCEPT !.pc = "download",
                                               !.script_url = body.script_url,
                                               !.script_name = body.script_name,
                                               !.task_payload = TaskPayloadOf(body)]
                         ELSE NoThread]
    /\ resp = [h \in Requests |-> NoResponse]
    /\ environ = [SCRIPT_URL |-> JNone, TASK_PAYLOAD_FILE |-> JNone]
    /\ files = {}
    /\ alive = TRUE
    /\ exit_status = -1
    /\ health = NoHealth
    /\ call = NoCall
    /\ result = NotReturned
    /\ wrapper = NoWrapper

SpecAccepted == InitAccepted /\ [][Next]_vars

\* ------------------------------------------------------------ direct calls

\* Values of TASK_AUTH_TOKEN of the direct calls: "", the secret, and a
\* token the secret starts with.
AuthTokens == {<<>>, Secret, <<"s">>}

\* Authorization headers of the direct calls: none, an empty one, the
\* secret, a prefix of it, an extension of it, the prefix without its
\* space, in lower case, twice, and another scheme.
AuthHeaders ==
    {Headers(FALSE, <<>>),
     Headers(TRUE, <<>>),
     Headers(TRUE, BearerPrefix \o Secret),
     Headers(TRUE, BearerPrefix \o <<"s">>),
     Headers(TRUE, BearerPrefix \o Secret \o <<"x">>),
     Headers(TRUE, <<"B", "e", "a", "r", "e", "r">> \o Secret),
     Headers(TRUE, <<"b", "e", "a", "r", "e", "r", " ">> \o Secret),
     Headers(TRUE, BearerPrefix \o BearerPrefix \o Secret),
     Headers(TRUE, <<"B", "a", "s", "i", "c", " ">> \o Secret),
     Headers(TRUE, Secret)}

AuthCalls == {[fn |-> "validate_auth", headers |-> hd] : hd \in AuthHeaders}

\* validate_auth() called in a request context (test_task_server.py 121-155):
\* it reads the global TASK_AUTH_TOKEN and the headers of the request.
CallValidateAuth ==
    /\ call.fn = "validate_auth"
    /\ ~result.done
    /\ result' = Returned(validate_auth(TASK_AUTH_TOKEN, call.headers))
    /\ UNCHANGED <<server, health, call, wrapper>>

\* validate_payload(payload) called with a parsed body (test_task_server.py
\* 48-115).
UrlHttp == Http \o <<"h", "/", "a", ".", "p", "y">>
UrlNested == Https \o <<"h", "/", "a", ".", "p", "y", "/", "x">>
UrlNoPy == Https \o <<"h", "/", "x">>
NameNoPy == ScriptPrefix \o Md5Hex16(UrlNoPy) \o DotPy

ScriptUrls == {JStr(UrlA), JStr(UrlHttp), JStr(UrlNested), JStr(UrlNoPy), JInt(<<"5">>)}
ScriptNames == {JStr(NameA), JStr(NameB), JStr(NameNoPy), JInt(<<"7">>)}
TaskPayloads == {JObj(<<"k", "v">>), JObj(<<>>), JStr(<<"p">>)}
PayloadKeys == {"script_url", "script_name", "payload"}

\* The values a key takes: one of `values` when the dict has it.
Field(keys, key, values) == IF key \in keys THEN values ELSE {JNone}

Payloads ==
    {Body("null", {}, JNone, JNone, JNone)} \cup
    UNION {{Body("dict", keys, u, n, p) :
                u \in Field(keys, "script_url", ScriptUrls),
                n \in Field(keys, "script_name", ScriptNames),
                p \in Field(keys, "payload", TaskPayloads)} :
            keys \in SUBSET PayloadKeys}

PayloadCalls == {[fn |-> "validate_payload", payload |-> p] : p \in Payloads}

CallValidatePayload ==
    /\ call.fn = "validate_payload"
    /\ ~result.done
    /\ result' = Returned(validate_payload(call.payload))
    /\ UNCHANGED <<server, health, call, wrapper>>

\* get_filename_from_url(url) called with a URL (test_features.py 20-37):
\* URLs of host h with up to MaxSegments path segments, with or without a
\* trailing "/" and a query.
SegmentChoices ==
    {<<"a", ".", "p", "y">>, <<"x">>, <<"b", ".", "P", "Y">>,
     <<"c", "*", ".", "p", "y">>, <<"d", "%2F", "e", ".", "p", "y">>}

Paths == UNION {[1..n -> SegmentChoices] : n \in 0..MaxSegments}

RECURSIVE PathText(_)
PathText(segments) ==
    IF segments = <<>> THEN <<>>
    ELSE <<"/">> \o Head(segments) \o PathText(Tail(segments))

GeneratedUrls ==
    {Https \o <<"h">> \o PathText(path) \o slash \o query :
        path \in Paths,
        slash \in {<<>>, <<"/">>},
        query \in {<<>>, <<"?", "v", ".", "p", "y">>}}

FilenameCalls == {[fn |-> "get_filename_from_url", url |-> u] : u \in GeneratedUrls}

CallGetFilename ==
    /\ call.fn = "get_filename_from_url"
    /\ ~result.done
    /\ result' = Returned(get_filename_from_url(call.url))
    /\ UNCHANGED <<server, health, call, wrapper>>

\* download_file(url, destination_path) called with a server that answers
\* with one of these statuses or not at all, the destination holding an
\* older file or not.
NewBytes == <<"n", "e", "w">>
OldBytes == <<"o", "l", "d">>

HttpOutcomes ==
    {HttpResponse(st, NewBytes) : st \in {200, 204, 304, 404, 500}}
        \cup {HttpError("Timeout"), HttpError("ConnectionError")}

IoOutcomes == {"ok", "open_fails", "write_fails"}

DownloadCalls ==
    {[fn |-> "download_file", url |-> UrlA, destination_path |-> TmpDir \o <<"/">> \o NameA,
      http |-> http, io |-> io, existing |-> existing] :
        http \in HttpOutcomes, io \in IoOutcomes, existing \in BOOLEAN}

\* The files before a direct call.
FilesBefore(c) ==
    IF c.fn = "download_file" /\ c.existing
    THEN {[path |-> c.destination_path, content |-> OldBytes]}
    ELSE {}

CallDownloadFile ==
    /\ call.fn = "download_file"
    /\ ~result.done
    /\ LET d == download_file(files, call.url, call.destination_path, call.http, call.io)
       IN  /\ result' = Returned(d.ok)
           /\ files' = d.files
    /\ UNCHANGED <<TASK_AUTH_TOKEN, task_executing, task_lock, pc, req, resp, thread,
                   environ, alive, exit_status, health, call, wrapper>>

\* The second call of get_filename_from_url with the URL of the first:
\* `again` is what it returns.
ReturnedTwice(first, again) == [done |-> TRUE, value |-> first, again |-> again]

CallGetFilenameAgain ==
    /\ call.fn = "get_filename_from_url"
    /\ result.done
    /\ "again" \notin DOMAIN result
    /\ result' = ReturnedTwice(result.value, get_filename_from_url(call.url))
    /\ UNCHANGED <<server, health, call, wrapper>>

\* download_helper_scripts (lines 147-189). helper_urls is None, a string
\* or a list: [t |-> "none"], [t |-> "str", v |-> text] or
\* [t |-> "list", v |-> urls].
ListOf(urls) == [t |-> "list", v |-> urls]

\* Lines 158 and 170: `not x` for None, "" and [].
NotHelperUrls(helper_urls) == helper_urls.t = "none" \/ helper_urls.v = <<>>

RECURSIVE StrippedPieces(_)
StrippedPieces(pieces) ==
    IF pieces = <<>> THEN <<>>
    ELSE LET piece == StripRight(StripLeft(Head(pieces)))
         IN  (IF piece = <<>> THEN <<>> ELSE <<piece>>) \o StrippedPieces(Tail(pieces))

\* Lines 165-168: the pieces between commas, stripped, the empty ones
\* dropped; a list is used as it is.
HelperUrlList(helper_urls) ==
    IF helper_urls.t = "str" THEN StrippedPieces(Split(helper_urls.v, ","))
    ELSE helper_urls.v

\* The state of the loop: the list returned so far, the files, and the
\* number of calls of download_file.
HelperLoop(downloaded, fs, attempts) ==
    [downloaded |-> downloaded, files |-> fs, attempts |-> attempts]

\* A loop body that appends the destination whether download_file returned
\* True or not.
HelperStepKeepingFailures(state, url, scripts_dir, outcome) ==
    LET destination == PathJoin(scripts_dir, get_filename_from_url(url))
        d == download_file(state.files, url, destination, outcome.http, outcome.io)
    IN  HelperLoop(Append(state.downloaded, destination), d.files, state.attempts + 1)

\* Lines 180-188: one iteration of the loop.
HelperStep(state, url, scripts_dir, outcome) ==
    LET destination == PathJoin(scripts_dir, get_filename_from_url(url))
        d == download_file(state.files, url, destination, outcome.http, outcome.io)
    IN  HelperLoop(IF d.ok THEN Append(state.downloaded, destination) ELSE state.downloaded,
                   d.files, state.attempts + 1)

\* Lines 177-188: the loop over the URLs from the i-th on; outcomes[i] is
\* how the download of the i-th URL goes.
RECURSIVE HelperSteps(_, _, _, _, _)
HelperSteps(state, urls, scripts_dir, outcomes, i) ==
    IF i > Len(urls) THEN state
    ELSE HelperSteps(HelperStep(state, urls[i], scripts_dir, outcomes[i]),
                     urls, scripts_dir, outcomes, i + 1)

download_helper_scripts(fs, helper_urls, scripts_dir, outcomes) ==
    IF NotHelperUrls(helper_urls) THEN HelperLoop(<<>>, fs, 0)
    ELSE LET urls == HelperUrlList(helper_urls)
         IN  IF urls = <<>> THEN HelperLoop(<<>>, fs, 0)
             ELSE HelperSteps(HelperLoop(<<>>, fs, 0), urls, scripts_dir, outcomes, 1)

\* At most MaxHelpers helper URLs are passed.
MaxHelpers == 2

\* The default scripts_dir (line 147).
ScriptsDir == <<"/", "a", "p", "p", "/", "s", "r", "c">>

\* How the download of one helper goes: it succeeds, the server answers
\* 404, the destination cannot be opened.
HelperOutcomes ==
    {[http |-> HttpResponse(200, NewBytes), io |-> "ok"],
     [http |-> HttpResponse(404, NewBytes), io |-> "ok"],
     [http |-> HttpResponse(200, NewBytes), io |-> "open_fails"]}

HelperUrlSeqs == UNION {[1..n -> {UrlA, UrlB}] : n \in 0..MaxHelpers}

\* The URLs joined into one string: each followed by `after`, preceded by
\* `before`.
RECURSIVE JoinedUrls(_, _, _)
JoinedUrls(urls, before, after) ==
    IF urls = <<>> THEN <<>>
    ELSE before \o Head(urls) \o after \o JoinedUrls(Tail(urls), before, after)

\* The argument for a list of URLs: the list, the URLs between commas, the
\* URLs with blanks around them and a comma after each (" , " for none).
HelperForms(urls) ==
    {ListOf(urls),
     JStr(IF urls = <<>> THEN <<>>
          ELSE JoinedUrls(SubSeq(urls, 1, Len(urls) - 1), <<>>, <<",">>) \o urls[Len(urls)]),
     JStr(<<" ">> \o JoinedUrls(urls, <<" ">>, <<" ", ",">>) \o <<" ">>)}

\* download_helper_scripts called with None or with one of the forms of a
\* list of URLs (test_features.py 39-49, full_smoke_test.py 451-456); urls
\* is the list the argument was written from.
HelperCalls ==
    UNION {{[fn |-> "download_helper_scripts", helper_urls |-> h, urls |-> us,
             scripts_dir |-> ScriptsDir, outcomes |-> o] :
               h \in HelperForms(us) \cup (IF us = <<>> THEN {JNone} ELSE {}),
               o \in [1..MaxHelpers -> HelperOutcomes]} :
           us \in HelperUrlSeqs}

CallDownloadHelperScripts ==
    /\ call.fn = "download_helper_scripts"
    /\ ~result.done
    /\ LET r == download_helper_scripts(files, call.helper_urls, call.scripts_dir,
                                        call.outcomes)
       IN  /\ result' = [done |-> TRUE, value |-> r.downloaded, attempts |-> r.attempts]
           /\ files' = r.files
    /\ UNCHANGED <<TASK_AUTH_TOKEN, task_executing, task_lock, pc, req, resp, thread,
                   environ, alive, exit_status, health, call, wrapper>>

DirectCalls == AuthCalls \cup PayloadCalls \cup FilenameCalls \cup DownloadCalls \cup HelperCalls

InitDirect ==
    /\ TASK_AUTH_TOKEN \in AuthTokens
    /\ Idle
    /\ result = NotReturned
    /\ call \in DirectCalls
    /\ files = FilesBefore(call)
    /\ wrapper = NoWrapper

NextDirect ==
    \/ CallValidateAuth
    \/ CallValidatePayload
    \/ CallGetFilename
    \/ CallGetFilenameAgain
    \/ CallDownloadFile
    \/ CallDownloadHelperScripts

SpecDirect == InitDirect /\ [][NextDirect]_vars

\* ---------------------------------------------------------- worker wrapper

\* worker_wrapper.py: the wrapper runs one script as a child process,
\* polls it every five seconds, stops it when the maximum runtime is
\* reached, and handles SIGTERM and SIGINT. wrapper.handlers is the stack of
\* signal handlers that interrupted the main flow (Python runs them in the
\* main thread, between two of its steps); the main flow moves only when
\* the stack is empty.

\* Lines 93-97: the places _find_script looks at, in order.
SearchOrder == <<"src", "app", "cwd">>

\* Lines 85-107: None with SCRIPT_URL set, else the first place that holds
\* the script as a file, else None.
_find_script(env) ==
    IF env.SCRIPT_URL THEN "None"
    ELSE LET found == {i \in 1..Len(SearchOrder) : SearchOrder[i] \in env.files}
         IN  IF found = {} THEN "None"
             ELSE SearchOrder[CHOOSE i \in found : \A j \in found : i <= j]

MainRuns == wrapper.pc \notin {"none", "exited"} /\ wrapper.handlers = <<>>

\* run() returns `code` to main().
WReturn(code) == wrapper' = [wrapper EXCEPT !.exit_code = code, !.pc = "exit"]

\* _find_script that falls back to the first place of the search order
\* when the script is nowhere.
WRunWithFallback ==
    /\ MainRuns
    /\ wrapper.pc = "run"
    /\ IF wrapper.environ.SCRIPT_URL
       THEN WReturn(1)
       ELSE wrapper' = [wrapper EXCEPT !.pc = "popen"]

\* Lines 162-189: run() refuses to start with SCRIPT_URL set or with no
\* script found, and returns 1; else it goes on to _run_script.
WRun ==
    /\ MainRuns
    /\ wrapper.pc = "run"
    /\ IF wrapper.environ.SCRIPT_URL
       THEN WReturn(1)
       ELSE IF _find_script(wrapper.environ) = "None"
            THEN WReturn(1)
            ELSE wrapper' = [wrapper EXCEPT !.pc = "popen"]

\* Lines 118-123: subprocess.Popen starts the child; the assignment to
\* self.script_process is the next step.
WPopen ==
    /\ MainRuns
    /\ wrapper.pc = "popen"
    /\ wrapper' = [wrapper EXCEPT !.child.state = "running", !.pc = "assign"]

\* Lines 118-123 and 156-160: Popen raises (no interpreter, no memory), the
\* except branch returns 1.
WPopenFails ==
    /\ MainRuns
    /\ wrapper.pc = "popen"
    /\ WReturn(1)

\* Line 118: self.script_process = <the Popen object>.
WAssign ==
    /\ MainRuns
    /\ wrapper.pc = "assign"
    /\ wrapper' = [wrapper EXCEPT !.script_process = "Popen", !.pc = "poll"]

\* Lines 128-132: poll(); the child has exited: return its exit code.
WPoll ==
    /\ MainRuns
    /\ wrapper.pc = "poll"
    /\ IF wrapper.child.state = "exited"
       THEN WReturn(wrapper.child.returncode)
       ELSE wrapper' = [wrapper EXCEPT !.pc = "check_exit"]

\* Lines 135-137: `if self.should_exit: return 0`.
WCheckExit ==
    /\ MainRuns
    /\ wrapper.pc = "check_exit"
    /\ IF wrapper.should_exit
       THEN WReturn(0)
       ELSE wrapper' = [wrapper EXCEPT !.pc = "check_runtime"]

\* Lines 140 and 76-83: elapsed >= max_runtime.
WCheckRuntime ==
    /\ MainRuns
    /\ wrapper.pc = "check_runtime"
    /\ wrapper' = [wrapper EXCEPT !.pc = IF wrapper.expired THEN "terminate" ELSE "sleep"]

\* Line 154: time.sleep(5), then the loop polls again.
WSleep ==
    /\ MainRuns
    /\ wrapper.pc = "sleep"
    /\ wrapper' = [wrapper EXCEPT !.pc = "poll"]

\* terminate(): SIGTERM to the child, nothing for a child that has exited.
Terminated(child) ==
    IF child.state = "running" THEN [child EXCEPT !.terminated = TRUE] ELSE child

\* kill() and wait(): SIGKILL ends a running child.
Killed(child) ==
    IF child.state = "running"
    THEN [child EXCEPT !.state = "exited", !.returncode = -9, !.killed = TRUE]
    ELSE child

\* Line 142: self.script_process.terminate().
WTerminate ==
    /\ MainRuns
    /\ wrapper.pc = "terminate"
    /\ wrapper' = [wrapper EXCEPT !.child = Terminated(@), !.pc = "wait"]

\* Lines 145 and 151: wait(timeout=10) returns, the child has exited;
\* return 2.
WWaitReturns ==
    /\ MainRuns
    /\ wrapper.pc = "wait"
    /\ wrapper.child.state = "exited"
    /\ WReturn(2)

\* The max-runtime branch that gives up on a child that outlives the ten
\* seconds: it returns 2 without killing it.
WWaitTimeoutGivesUp ==
    /\ MainRuns
    /\ wrapper.pc = "wait"
    /\ wrapper.child.state = "running"
    /\ WReturn(2)

\* Line 146: wait(timeout=10) raises TimeoutExpired, the child still runs.
WWaitTimeout ==
    /\ MainRuns
    /\ wrapper.pc = "wait"
    /\ wrapper.child.state = "running"
    /\ wrapper' = [wrapper EXCEPT !.pc = "kill"]

\* Lines 147-151: kill(), wait(), return 2.
WKill ==
    /\ MainRuns
    /\ wrapper.pc = "kill"
    /\ wrapper' = [wrapper EXCEPT !.child = Killed(@), !.exit_code = 2, !.pc = "exit"]

\* Lines 205-212: main() calls sys.exit(exit_code); the process ends with
\* the low eight bits of it.
WExit ==
    /\ MainRuns
    /\ wrapper.pc = "exit"
    /\ wrapper' = [wrapper EXCEPT !.status = wrapper.exit_code % 256, !.pc = "exited"]

\* At most MaxSignals signals are delivered.
MaxSignals == 2

\* SIGTERM or SIGINT is delivered while the wrapper runs: _handle_signal
\* (installed at lines 55-56) interrupts whatever runs.
Signal ==
    /\ wrapper.pc \notin {"none", "exited"}
    /\ wrapper.signals < MaxSignals
    /\ wrapper' = [wrapper EXCEPT !.handlers = Append(@, "flag"), !.signals = @ + 1]

\* The handler that runs: the last one delivered.
Top == wrapper.handlers[Len(wrapper.handlers)]

Handling(position) == wrapper.handlers # <<>> /\ Top = position

HandlerGoes(position) == [wrapper.handlers EXCEPT ![Len(wrapper.handlers)] = position]

HandlerReturns == SubSeq(wrapper.handlers, 1, Len(wrapper.handlers) - 1)

\* Line 61: self.should_exit = True.
HFlag ==
    /\ Handling("flag")
    /\ wrapper' = [wrapper EXCEPT !.should_exit = TRUE, !.handlers = HandlerGoes("test")]

\* Line 64: `if self.script_process and self.script_process.poll() is None`.
HTest ==
    /\ Handling("test")
    /\ wrapper' = [wrapper EXCEPT !.handlers =
                      IF wrapper.script_process = "Popen" /\ wrapper.child.state = "running"
                      THEN HandlerGoes("terminate")
                      ELSE HandlerReturns]

\* Line 66: self.script_process.terminate().
HTerminate ==
    /\ Handling("terminate")
    /\ wrapper' = [wrapper EXCEPT !.child = Terminated(@), !.handlers = HandlerGoes("wait")]

\* Line 70: wait(timeout=10) returns, the child has exited.
HWaitReturns ==
    /\ Handling("wait")
    /\ wrapper.child.state = "exited"
    /\ wrapper' = [wrapper EXCEPT !.handlers = HandlerReturns]

\* Line 71: wait(timeout=10) raises TimeoutExpired.
HWaitTimeout ==
    /\ Handling("wait")
    /\ wrapper.child.state = "running"
    /\ wrapper' = [wrapper EXCEPT !.handlers = HandlerGoes("kill")]

\* Lines 73-74: kill() and wait().
HKill ==
    /\ Handling("kill")
    /\ wrapper' = [wrapper EXCEPT !.child = Killed(@), !.handlers = HandlerReturns]

\* The exit codes of a script that ends by itself.
ScriptExitCodes == {0, 1}

\* The child ends: by itself, or by the SIGTERM it was sent (-15). A child
\* outlives a wrapper that has exited without stopping it.
ChildExit ==
    /\ wrapper.child.state = "running"
    /\ \E code \in ScriptExitCodes \cup (IF wrapper.child.terminated THEN {-15} ELSE {}) :
          wrapper' = [wrapper EXCEPT !.child.state = "exited", !.child.returncode = code]

\* Time passes: the elapsed time reaches MAX_RUN_HOURS.
Tick ==
    /\ wrapper.pc \notin {"none", "exited"}
    /\ ~wrapper.expired
    /\ wrapper' = [wrapper EXCEPT !.expired = TRUE]

\* Lines 48-56: the wrapper after construction, in an environment with
\* SCRIPT_URL set or not and the script present at some of the places.
InitWrapper ==
    /\ TASK_AUTH_TOKEN = <<>>
    /\ Idle
    /\ files = {}
    /\ call = NoCall
    /\ result = NotReturned
    /\ \E url \in BOOLEAN, present \in SUBSET {"src", "app", "cwd"} :
          wrapper = [NoWrapper EXCEPT !.pc = "run",
                                      !.environ = [SCRIPT_URL |-> url, files |-> present]]

NextWrapper ==
    \/ WRun /\ UNCHANGED <<server, health, direct>>
    \/ WPopen /\ UNCHANGED <<server, health, direct>>
    \/ WPopenFails /\ UNCHANGED <<server, health, direct>>
    \/ WAssign /\ UNCHANGED <<server, health, direct>>
    \/ WPoll /\ UNCHANGED <<server, health, direct>>
    \/ WCheckExit /\ UNCHANGED <<server, health, direct>>
    \/ WCheckRuntime /\ UNCHANGED <<server, health, direct>>
    \/ WSleep /\ UNCHANGED <<server, health, direct>>
    \/ WTerminate /\ UNCHANGED <<server, health, direct>>
    \/ WWaitReturns /\ UNCHANGED <<server, health, direct>>
    \/ WWaitTimeout /\ UNCHANGED <<server, health, direct>>
    \/ WKill /\ UNCHANGED <<server, health, direct>>
    \/ WExit /\ UNCHANGED <<server, health, direct>>
    \/ Signal /\ UNCHANGED <<server, health, direct>>
    \/ HFlag /\ UNCHANGED <<server, health, direct>>
    \/ HTest /\ UNCHANGED <<server, health, direct>>
    \/ HTerminate /\ UNCHANGED <<server, health, direct>>
    \/ HWaitReturns /\ UNCHANGED <<server, health, direct>>
    \/ HWaitTimeout /\ UNCHANGED <<server, health, direct>>
    \/ HKill /\ UNCHANGED <<server, health, direct>>
    \/ ChildExit /\ UNCHANGED <<server, health, direct>>
    \/ Tick /\ UNCHANGED <<server, health, direct>>

SpecWrapper == InitWrapper /\ [][NextWrapper]_vars

\* ------------------------------------------------------------ properties

\* The execution thread of request h has been started and has not ended.
InFlight(h) == thread[h].pc \notin {"none", "done"}

\* The handler of request h has passed the test of the flag and has neither
\* reset the flag nor handed it to a thread yet.
Holding(h) == pc[h] \in {"mark", "parse", "validate", "start", "bad_json", "invalid", "error"}

\* The handler of request h takes the step that reads the flag.
TestStep(h) == pc[h] = "lock" /\ pc'[h] # "lock"

\* C1. Single-flight: in no reachable state are two execution threads in
\* flight; at most one request at a time is past the test-and-set (holding
\* the flag itself or through its thread), and the flag is set while a
\* thread is in flight.
C1_SingleFlight ==
    /\ Cardinality({h \in Requests : Holding(h) \/ InFlight(h)}) <= 1
    /\ (\E h \in Requests : InFlight(h)) => task_executing

\* A thread is in flight and another request has been answered 409.
C1_Witness ==
    \E h1, h2 \in Requests :
        h1 # h2 /\ InFlight(h1) /\ resp[h2].status = 409

\* C2. At most one task per process lifetime: once a request has been
\* answered 202 the flag stays set while the process is alive, and no second
\* request is answered 202.
C2_OneTaskPerLifetime ==
    /\ (alive /\ \E h \in Requests : resp[h].status = 202) => task_executing
    /\ Cardinality({h \in Requests : resp[h].status = 202}) <= 1

\* C3. Forced restart: when the execution thread has run to its end after
\* its child terminated (exit 0, non-zero exit, kill on timeout), the server
\* process has terminated.
C3_ForcedRestart ==
    \A h \in Requests :
        (thread[h].pc = "done" /\ thread[h].child \in ChildOutcomes) => ~alive

\* C4. A failed download ends in the forced restart too: when the execution
\* thread has run to its end after its download failed, no child was spawned
\* and the server process has terminated.
C4_DownloadFailureRestarts ==
    \A h \in Requests :
        (thread[h].pc = "done" /\ thread[h].downloaded = "failed")
            => (thread[h].spawns = 0 /\ ~alive)

C6_ConflictBeforeValidation ==
    [][\A h \in Requests :
          (TestStep(h) /\ task_executing)
              => /\ resp'[h] = Response(409, <<"Another task is already executing">>,
                                        "conflict", JNone, JNone)
                 /\ pc'[h] = "done"
                 /\ task_executing'
                 /\ thread' = thread]_vars

\* A request answered 409 while the flag is set.
C6_Witness == \E h \in Requests : resp[h].status = 409 /\ task_executing

\* What an accepted request is answered and what its thread is started with.
AcceptedAs(h) ==
    /\ resp[h] = Response(202, <<>>, "accepted", req[h].body.script_url,
                          req[h].body.script_name)
    /\ thread[h].pc # "none"
    /\ thread[h].script_url = req[h].body.script_url
    /\ thread[h].script_name = req[h].body.script_name
    /\ thread[h].task_payload = TaskPayloadOf(req[h].body)

ValidBody(body) ==
    body.json # "bad" /\ ~validate_payload(body).raised /\ validate_payload(body).ok

\* C7. A request that passed authentication and found the flag clear, with
\* a valid body, is answered 202 "accepted" with its script_url and
\* script_name, and its thread runs with its script_url, script_name and
\* payload; 202 is answered to no other request. The thread is started by
\* its handler alone, while the flag is set, and starting it touches no
\* other thread.
C7_AcceptedTask ==
    /\ [](\A h \in Requests :
            /\ (pc[h] = "done" /\ resp[h].status \notin {401, 409} /\ ValidBody(req[h].body))
                   => AcceptedAs(h)
            /\ resp[h].status = 202 => (ValidBody(req[h].body) /\ AcceptedAs(h))
            /\ pc[h] = "start" => (task_executing /\ thread[h].pc = "none"))
    /\ [][\A h \in Requests :
            (thread[h].pc = "none" /\ thread'[h].pc # "none")
                => /\ pc[h] = "start"
                   /\ task_executing
                   /\ \A g \in Requests \ {h} : thread'[g] = thread[g]]_vars

\* A request with a payload answered 202, its thread holding the payload.
C7_Witness ==
    \E h \in Requests :
        /\ resp[h].status = 202
        /\ resp[h].script_url = JStr(UrlB)
        /\ thread[h].task_payload = JObj(<<"k", "v">>)

\* The body of a request ends in a 400: not JSON, or a validation error.
EndsIn400(body) ==
    body.json = "bad" \/ (~validate_payload(body).raised /\ ~validate_payload(body).ok)

\* C8 as stated: while a request that ends in a 400 is handled, the flag
\* keeps the value it had before the request (clear, or the request would
\* have been answered 409).
C8_FlagNeverWritten ==
    \A h \in Requests :
        (pc[h] \in {"parse", "validate", "bad_json", "invalid"} /\ EndsIn400(req[h].body))
            => ~task_executing

\* C8 amended: the handler of a request that ends in a 400 sets the flag at
\* its test-and-set and holds it, with no thread in flight, until the step
\* that answers 400, which resets it to the value it had before the request
\* and changes no thread.
C8_FlagSetThenReset ==
    /\ [](\A h \in Requests :
            (pc[h] \in {"parse", "validate", "bad_json", "invalid"}
                 /\ EndsIn400(req[h].body))
                => (task_executing /\ \A g \in Requests : ~InFlight(g)))
    /\ [][\A h \in Requests :
            (pc[h] \in {"bad_json", "invalid"} /\ pc'[h] = "done")
                => /\ resp'[h].status = 400
                   /\ task_executing /\ ~task_executing'
                   /\ thread' = thread]_vars

\* A request answered 400 and the flag clear again.
C8_Witness ==
    \E h \in Requests : resp[h].status = 400 /\ ~task_executing /\ thread[h].pc = "none"

\* The header the handler read is "Bearer " followed by the configured token.
Matching(h) == AuthorizationOf(req[h].headers) = BearerPrefix \o TASK_AUTH_TOKEN

\* C9. With a token configured, a request without the matching Bearer header
\* is answered 401 and goes no further, whether the flag is clear or set;
\* the step that answers 401 changes neither the flag nor any thread.
C9_Unauthorized ==
    /\ [](TASK_AUTH_TOKEN # <<>>
            => \A h \in Requests :
                  (pc[h] # "new" /\ ~Matching(h))
                      => /\ resp[h].status = 401
                         /\ pc[h] = "done"
                         /\ thread[h].pc = "none")
    /\ [][\A h \in Requests :
            (pc[h] = "new" /\ resp'[h].status = 401)
                => /\ task_executing' = task_executing
                   /\ thread' = thread
                   /\ task_lock' = task_lock]_vars

\* A request answered 401 while a thread is in flight and the flag set.
C9_Witness ==
    \E h, g \in Requests :
        resp[h].status = 401 /\ ~Matching(h) /\ InFlight(g) /\ task_executing

\* C10. The 401 response is decided by the headers alone: two requests with
\* the same headers that fail authentication get the same response, and
\* every 401 response is the one validate_auth gives for the headers,
\* whatever the body and the flag.
C10_NoLeakIn401 ==
    /\ \A h1, h2 \in Requests :
          (resp[h1].status = 401 /\ resp[h2].status = 401
               /\ req[h1].headers = req[h2].headers)
              => resp[h1] = resp[h2]
    /\ \A h \in Requests :
          resp[h].status = 401
              => resp[h] = Response(401, validate_auth(TASK_AUTH_TOKEN, req[h].headers).error,
                                    "", JNone, JNone)

\* Two requests with the same headers answered 401.
C10_Witness ==
    \E h1, h2 \in Requests :
        /\ h1 # h2
        /\ resp[h1].status = 401 /\ resp[h2].status = 401
        /\ req[h1].headers = req[h2].headers

\* C11. validate_auth: with an empty configured token it succeeds whatever
\* the headers; with a non-empty token it succeeds exactly when the
\* Authorization header is "Bearer " followed by the token; it fails with
\* "Missing or invalid Authorization header" when the header is absent or
\* does not start with "Bearer ", and with "Invalid authentication token"
\* when it starts with "Bearer " and the rest is not the token.
C11_ValidateAuth ==
    (call.fn = "validate_auth" /\ result.done) =>
        LET header == IF call.headers.present THEN call.headers.value ELSE <<>>
            r == result.value
        IN  /\ ~r.raised
            /\ TASK_AUTH_TOKEN = <<>> => (r.ok /\ r.error = NoneVal)
            /\ TASK_AUTH_TOKEN # <<>> =>
                  /\ r.ok <=> (call.headers.present
                                 /\ header = BearerPrefix \o TASK_AUTH_TOKEN)
                  /\ r.ok => r.error = NoneVal
                  /\ ~StartsWith(header, BearerPrefix) =>
                        r.error = <<"Missing or invalid Authorization header">>
                  /\ (StartsWith(header, BearerPrefix)
                        /\ header # BearerPrefix \o TASK_AUTH_TOKEN) =>
                        r.error = <<"Invalid authentication token">>

\* A call with the secret configured and a header that carries only the
\* start of the secret has been refused as an invalid token.
C11_Witness ==
    /\ call.fn = "validate_auth"
    /\ result.done
    /\ TASK_AUTH_TOKEN = Secret
    /\ call.headers = Headers(TRUE, BearerPrefix \o <<"s">>)
    /\ result.value = Result(FALSE, <<"Invalid authentication token">>)

\* The six rules of validate_payload as the claim lists them: rule i fails
\* for the payload p.
RuleFails(i, p) ==
    CASE i = 1 -> p.json = "null" \/ p.keys = {}
      [] i = 2 -> "script_url" \notin p.keys
      [] i = 3 -> "script_name" \notin p.keys
      [] i = 4 -> ~(p.script_url.t = "str" /\ StartsWith(p.script_url.v, Https))
      [] i = 5 -> \/ p.script_url.t # "str"
                  \/ p.script_name # JStr(get_filename_from_url(p.script_url.v))
      [] i = 6 -> "payload" \in p.keys /\ p.payload.t # "obj"

RuleMessage(i, p) ==
    CASE i = 1 -> <<"Empty payload">>
      [] i = 2 -> <<"Missing required field: script_url">>
      [] i = 3 -> <<"Missing required field: script_name">>
      [] i = 4 -> <<"script_url must use HTTPS protocol">>
      [] i = 5 -> <<"script_name '">> \o p.script_name.v
                      \o <<"' does not match URL filename '">>
                      \o get_filename_from_url(p.script_url.v) \o <<"'">>
      [] i = 6 -> <<"payload field must be a JSON object">>

\* C12. validate_payload applies six rules in a fixed order (empty payload,
\* missing script_url, missing script_name, non-HTTPS script_url, mismatch
\* of script_name and URL filename, non-object payload field): for every
\* payload it returns (false, message of the first rule that fails), and
\* (true, no error) exactly when no rule fails.
C12_RulesInOrder ==
    (call.fn = "validate_payload" /\ result.done) =>
        LET p == call.payload
            r == result.value
            failing == {i \in 1..6 : RuleFails(i, p)}
            first == CHOOSE i \in failing : \A j \in failing : i <= j
        IN  /\ ~r.raised
            /\ IF failing = {} THEN r.ok /\ r.error = NoneVal
               ELSE ~r.ok /\ r.error = RuleMessage(first, p)

FallbackName(url) == ScriptPrefix \o Md5Hex16(url) \o DotPy

\* C14 as the specification states it: the derivation returns the last
\* "/"-separated segment of the URL path when that segment is non-empty
\* and ends with ".py", and the fallback name otherwise; no earlier segment
\* is ever returned.
C14_LastSegmentOnly ==
    (call.fn = "get_filename_from_url" /\ result.done) =>
        LET pieces == Split(UrlPath(call.url), "/")
            last == pieces[Len(pieces)]
        IN  result.value = IF last # <<>> /\ EndsWith(last, DotPy) THEN last
                           ELSE FallbackName(call.url)

\* C14. The derivation splits the URL-decoded path on "/" and returns,
\* sanitized, the rightmost segment whose lower-cased text ends in ".py",
\* be it the last segment or an earlier one; it returns the fallback name
\* only when no segment ends in ".py".
C14_RightmostPySegment ==
    (call.fn = "get_filename_from_url" /\ result.done) =>
        LET pieces == Split(Unquote(UrlPath(call.url)), "/")
            py == {i \in DOMAIN pieces : EndsWith(Lower(pieces[i]), DotPy)}
            rightmost == CHOOSE i \in py : \A j \in py : j <= i
        IN  result.value = IF py = {} THEN FallbackName(call.url)
                           ELSE _sanitize(pieces[rightmost])

\* The derivation has returned the segment before the last one of a path
\* whose last segment does not end in ".py".
C14_Witness ==
    /\ call.fn = "get_filename_from_url"
    /\ result.done
    /\ call.url = UrlNested
    /\ result.value = NameA

\* The execution thread of request h has been started.
Started(h) == thread[h].pc # "none"

\* C15 as the specification states it: the script is written to and
\* executed from one fixed path: any two accepted tasks have the same
\* destination, whatever their script_name and script_url.
C15_FixedDestination ==
    \A h1, h2 \in Requests :
        (Started(h1) /\ Started(h2)) =>
            /\ Destination(thread[h1].script_name) = Destination(thread[h2].script_name)
            /\ \A f \in files :
                  f.path # PathJoin(TmpDir, PayloadFileName) =>
                      f.path = Destination(thread[h1].script_name)

\* C15. The script is written to and executed from /tmp/<script_name>,
\* where script_name is the sanitized filename of script_url and holds no
\* "/": the file lies directly in the temporary directory and its name
\* depends on the request, so tasks with different names have different
\* destinations.
C15_DestinationFromName ==
    /\ \A h \in Requests :
          Started(h) =>
              LET name == thread[h].script_name.v
                  dest == TmpDir \o <<"/">> \o name
              IN  /\ name = get_filename_from_url(thread[h].script_url.v)
                  /\ \A i \in DOMAIN name : name[i] # "/"
                  /\ thread[h].downloaded = "ok" => \E f \in files : f.path = dest
                  /\ thread[h].spawns > 0 => thread[h].executed = dest
    /\ \A h1, h2 \in Requests :
          (/\ thread[h1].downloaded = "ok" /\ thread[h2].downloaded = "ok"
           /\ thread[h1].script_name # thread[h2].script_name) =>
              \E f1, f2 \in files :
                  /\ f1.path # f2.path
                  /\ f1.content = thread[h1].script_url
                  /\ f2.content = thread[h2].script_url

\* Two accepted tasks with different names have been downloaded and run:
\* two script files exist and the children ran different paths.
C15_Witness ==
    \E h1, h2 \in Requests :
        /\ thread[h1].spawns > 0 /\ thread[h2].spawns > 0
        /\ thread[h1].executed # thread[h2].executed
        /\ Cardinality({f \in files : f.path # PathJoin(TmpDir, PayloadFileName)}) = 2

\* C16. The lock is held only by a handler at its test-and-set or at a
\* reset of the flag, or by a thread at its reset of the flag, never by a
\* thread that is downloading or running a child; every change of the flag
\* is made by a step that starts with the lock held and releases it; and
\* GET /health can be answered in every reachable state, the lock held or a
\* task running.
C16_LockOnlyAroundFlag ==
    /\ [](\A h \in Requests :
            /\ task_lock = <<"handler", h>> =>
                  (pc[h] \in {"mark", "bad_json", "invalid", "error"} /\ ~InFlight(h))
            /\ task_lock = <<"thread", h>> => thread[h].pc = "reset"
            /\ thread[h].pc \in {"download", "prepare", "run", "child", "exit"} =>
                  task_lock # <<"thread", h>>)
    /\ [](ENABLED Health)
    /\ [][task_executing' # task_executing =>
            (task_lock # Free /\ task_lock' = Free)]_vars

\* GET /health has reported a set flag, the lock is held by a thread that
\* is resetting the flag, and the next GET /health can be answered.
C16_Witness ==
    /\ health = HealthResponse(TRUE)
    /\ \E h \in Requests : task_lock = <<"thread", h>>
    /\ ENABLED Health

\* C17. GET /health is read-only and unauthenticated: in every state,
\* whatever token is configured, it can be answered; its answer is 200 with
\* status "healthy", mode "standby" and task_executing equal to the flag;
\* and no answer of it changes the flag or any other state of the server.
C17_HealthReadOnly ==
    /\ ENABLED Health
    /\ health # NoHealth =>
          health = [status |-> 200, state |-> "healthy", mode |-> "standby",
                    task_executing |-> task_executing]
    /\ ~ENABLED (Health /\ server' # server)

\* With a token configured, GET /health has been answered while a task was
\* executing, and has reported it.
C17_Witness ==
    /\ TASK_AUTH_TOKEN = Secret
    /\ health.status = 200
    /\ health.task_executing
    /\ \E h \in Requests : thread[h].pc = "child"

\* The handler of request h has set the flag and has not answered yet.
BeforeResponse(h) ==
    pc[h] \in {"parse", "validate", "start", "bad_json", "invalid", "error", "respond"}

\* C18. The flag is never left stuck: in every reachable state where it is
\* set, a handler is between its test-and-set and its response or an
\* execution thread is still running; a handler in which an exception was
\* raised after it set the flag has started no thread, and the step that
\* answers 500 is the step that resets the flag.
C18_FlagNeverStuck ==
    /\ [](/\ task_executing =>
                \E h \in Requests : BeforeResponse(h) \/ InFlight(h)
          /\ \A h \in Requests :
                /\ pc[h] = "error" => (task_executing /\ thread[h].pc = "none")
                /\ (pc[h] = "done" /\ resp[h].status \notin {401, 409}
                      /\ req[h].body.json # "bad"
                      /\ validate_payload(req[h].body).raised) =>
                        (resp[h].status = 500 /\ thread[h].pc = "none"))
    /\ [][\A h \in Requests :
            (resp[h].status # 500 /\ resp'[h].status = 500) =>
                (pc[h] = "error" /\ task_executing /\ ~task_executing')]_vars

\* A request has been answered 500 and left the flag clear; a later request
\* has been accepted and its thread is running with the flag set.
C18_Witness ==
    \E h1, h2 \in Requests :
        /\ resp[h1].status = 500
        /\ thread[h1].pc = "none"
        /\ thread[h2].pc = "child"
        /\ task_executing

\* C19. No retries: a task's download is attempted at most once and its
\* child spawned at most once; after a failed download the thread goes to
\* its end without a further download and without running anything.
C19_NoRetries ==
    \A h \in Requests :
        /\ thread[h].downloads <= 1
        /\ thread[h].spawns <= 1
        /\ thread[h].pc \in {"prepare", "run", "child", "exit"} => thread[h].downloads = 1
        /\ thread[h].child # "none" => thread[h].spawns = 1
        /\ thread[h].downloaded = "failed" =>
              /\ thread[h].pc \in {"finally", "reset", "done"}
              /\ thread[h].downloads = 1
              /\ thread[h].spawns = 0
              /\ thread[h].child = "none"
              /\ thread[h].executed = <<>>
              /\ \A f \in files : f.content # thread[h].script_url
                                     \/ \E g \in Requests \ {h} :
                                           thread[g].downloaded = "ok"
                                           /\ thread[g].script_url = f.content

\* A task whose download failed has ended: one attempt, nothing run.
C19_Witness ==
    \E h \in Requests :
        /\ thread[h].pc = "done"
        /\ thread[h].downloaded = "failed"
        /\ thread[h].downloads = 1
        /\ thread[h].spawns = 0

\* C20. Fire-and-forget: a handler that has started its thread can answer
\* at once, whatever the thread is doing; its answer is 202 with the fields
\* of the request, whatever the thread has done or does later (failed
\* download, child that could not be started, crashed or was killed); and
\* a response, once sent, is not changed by what the thread does.
C20_FireAndForget ==
    /\ [](\A h \in Requests :
            /\ pc[h] = "respond" => ENABLED RespondAccepted(h)
            /\ (pc[h] = "done" /\ Started(h)) =>
                  resp[h] = Response(202, <<>>, "accepted", req[h].body.script_url,
                                     req[h].body.script_name))
    /\ [][\A h \in Requests :
            /\ resp[h].status # 0 => resp'[h] = resp[h]
            /\ (pc[h] = "respond" /\ pc'[h] = "done") =>
                  (resp'[h].status = 202 /\ thread'[h] = thread[h])]_vars

\* A request has been answered 202 and its thread has ended on a failed
\* download; another has been answered 202 before its thread took a step.
C20_Witness ==
    \E h1, h2 \in Requests :
        /\ resp[h1].status = 202
        /\ thread[h1].pc = "done"
        /\ thread[h1].downloaded = "failed"
        /\ resp[h2].status = 202
        /\ thread[h2].pc = "download"

\* The payload file of the server.
PayloadFile == PathJoin(TmpDir, PayloadFileName)

\* C21. For every accepted task that carried a payload field, when its
\* child has been spawned the payload file holds the payload and
\* TASK_PAYLOAD_FILE holds the path of the file; for a task without a
\* payload field no payload file is written.
C21_PayloadPersisted ==
    /\ \A h \in Requests :
          (thread[h].spawns > 0 /\ "payload" \in req[h].body.keys) =>
              /\ [path |-> PayloadFile, content |-> req[h].body.payload] \in files
              /\ environ.TASK_PAYLOAD_FILE = JStr(PayloadFile)
    /\ (\A h \in Requests : Started(h) => "payload" \notin req[h].body.keys) =>
          \A f \in files : f.path # PayloadFile

\* C22. The fetcher returns failure on a non-2xx status or a network error
\* and then has neither created nor modified the destination file; when it
\* returns success the destination holds the bytes of the response.
C22_FailureLeavesDestination ==
    (call.fn = "download_file" /\ result.done) =>
        /\ (call.http.kind = "error"
              \/ ~(call.http.status >= 200 /\ call.http.status < 300)) =>
                (result.value = FALSE /\ files = FilesBefore(call))
        /\ result.value = TRUE =>
              [path |-> call.destination_path, content |-> call.http.content] \in files

MainStep == wrapper.handlers = <<>> /\ wrapper'.handlers = <<>> /\ wrapper'.pc # wrapper.pc

MaxRuntimeBranch ==
    /\ (MainStep /\ wrapper.pc = "check_runtime" /\ wrapper.expired)
          => wrapper'.pc = "terminate"
    /\ (MainStep /\ wrapper.pc = "terminate")
          => /\ wrapper'.pc = "wait"
             /\ wrapper.child.state = "running" => wrapper'.child.terminated
    /\ (MainStep /\ wrapper.pc = "wait")
          => \/ wrapper.child.state = "exited" /\ wrapper'.pc = "exit" /\ wrapper'.exit_code = 2
             \/ wrapper.child.state = "running" /\ wrapper'.pc = "kill"
                   /\ wrapper'.child = wrapper.child
    /\ (MainStep /\ wrapper.pc = "kill")
          => /\ wrapper'.pc = "exit" /\ wrapper'.exit_code = 2
             /\ wrapper'.child.state = "exited"
             /\ wrapper.child.state = "running" => wrapper'.child.killed
    /\ (MainStep /\ wrapper.pc = "exit" /\ wrapper.exit_code = 2)
          => wrapper'.pc = "exited" /\ wrapper'.status = 2

\* C24. Max-runtime enforcement: when the wrapper finds the elapsed time at
\* MAX_RUN_HOURS with the child still running, it sends terminate, waits,
\* kills the child only if it has not exited within the wait, and exits with
\* status 2; the child is killed only after a terminate, and no longer runs
\* when the wrapper leaves this branch.
C24_MaxRuntime ==
    /\ [](wrapper.child.killed => wrapper.child.terminated)
    /\ []((wrapper.pc \in {"exit", "exited"} /\ wrapper.exit_code = 2)
              => wrapper.child.state = "exited")
    /\ [][MaxRuntimeBranch]_vars

\* The wrapper has exited with status 2 after it had to kill the child.
C24_Witness ==
    /\ wrapper.pc = "exited"
    /\ wrapper.status = 2
    /\ wrapper.child.killed
    /\ wrapper.signals = 0

C30_ChildStoppedBeforeExit ==
    (wrapper.pc = "exited" /\ wrapper.signals > 0) => wrapper.child.state # "running"

\* The download of a helper goes through: the server answers 200 and the
\* destination is written.
HelperSucceeds(outcome) == outcome.http.status = 200 /\ outcome.io = "ok"

\* The place a helper URL of the calls is saved at.
HelperPlace(url) ==
    ScriptsDir \o <<"/">> \o (IF url = UrlA THEN NameA ELSE NameB)

RECURSIVE PlacesOfSucceeded(_, _, _)
PlacesOfSucceeded(urls, outcomes, i) ==
    IF i > Len(urls) THEN <<>>
    ELSE (IF HelperSucceeds(outcomes[i]) THEN <<HelperPlace(urls[i])>> ELSE <<>>)
            \o PlacesOfSucceeded(urls, outcomes, i + 1)

\* C26. download_helper_scripts returns the destination paths of the
\* helper URLs whose download succeeded, in input order: every URL is
\* attempted once, failed ones are skipped, and for None or an input without
\* a URL the empty list is returned and nothing is attempted.
C26_HelpersDownloaded ==
    (call.fn = "download_helper_scripts" /\ result.done)
    => /\ result.value = PlacesOfSucceeded(call.urls, call.outcomes, 1)
       /\ result.attempts = Len(call.urls)
       /\ call.urls = <<>> => result.value = <<>> /\ result.attempts = 0 /\ files = {}

\* Two helpers were passed in one string with blanks; the first download
\* failed and the second is returned.
C26_Witness ==
    /\ call.fn = "download_helper_scripts"
    /\ result.done
    /\ call.helper_urls.t = "str"
    /\ call.urls = <<UrlA, UrlB>>
    /\ ~HelperSucceeds(call.outcomes[1])
    /\ result.value = <<HelperPlace(UrlB)>>
    /\ result.attempts = 2

\* The step answers request h 409.
Answers409(h) == TestStep(h) /\ resp'[h].status = 409

\* C27 as stated: a request is answered 409 only while an accepted task is
\* in flight (its thread runs, or its handler is on its way to answer 202);
\* not while the other requests are merely being parsed or validated and end
\* in 400.
C27_ConflictOnlyWithAcceptedTask ==
    [][\A h \in Requests :
          Answers409(h)
              => \E g \in Requests \ {h} :
                    \/ InFlight(g)
                    \/ BeforeResponse(g) /\ ValidBody(req[g].body)]_vars

\* C27 amended: a request is answered 409 only while the thread of an
\* accepted task is in flight or the handler of another request is between
\* its test-and-set and its response, whatever that response will be.
C27_ConflictOnlyWhileFlagHeld ==
    [][\A h \in Requests :
          Answers409(h)
              => /\ task_executing
                 /\ \E g \in Requests \ {h} : InFlight(g) \/ BeforeResponse(g)]_vars

\* A request was answered 409 and the other 400: no thread was ever started.
C27_Witness ==
    \E h, g \in Requests :
        /\ resp[h].status = 409
        /\ resp[g].status = 400
        /\ \A k \in Requests : thread[k].pc = "none"

\* Request h was answered with an error.
Refused(h) == resp[h].status \in {400, 401, 409, 500}

\* C28. Execution threads and 202 responses correspond one to one: the
\* thread of a request is started only by a handler that goes on to answer
\* 202 and nothing else, a request answered 202 has its thread started, a
\* request answered 400, 401, 409 or 500 has started none, and whenever the
\* flag is set it is held for a request that was not answered with an error.
C28_ThreadsAndAccepted ==
    /\ \A h \in Requests :
          /\ Started(h) => /\ pc[h] \in {"respond", "done"}
                           /\ pc[h] = "done" => resp[h].status = 202
          /\ resp[h].status = 202 => Started(h)
          /\ Refused(h) => (thread[h].pc = "none" /\ pc[h] = "done")
    /\ task_executing
          => \E g \in Requests : ~Refused(g) /\ (BeforeResponse(g) \/ InFlight(g))

\* One request was answered 500 and started no thread, the other was
\* answered 202, its thread has ended and the flag is clear.
C28_Witness ==
    \E h, g \in Requests :
        /\ resp[h].status = 202
        /\ thread[h].pc = "done"
        /\ resp[g].status = 500
        /\ thread[g].pc = "none"
        /\ ~task_executing

\* C29. No payload carry-over: while the child of a task submitted without
\* a payload runs, TASK_PAYLOAD_FILE is not set in the environment it
\* inherited and no payload file of an earlier task is there to read.
C29_NoPayloadCarryOver ==
    \A h \in Requests :
        (thread[h].pc = "child" /\ thread[h].task_payload = JNone)
            => /\ environ.TASK_PAYLOAD_FILE = JNone
               /\ \A f \in files : f.path # PathJoin(TmpDir, PayloadFileName)

====
